---------------------------- MODULE Spec2Model ----------------------------
(***************************************************************************)
(* AdaptivePWM (src/src/main.c): a bare-metal control loop that samples an *)
(* ADC, derives L / C / ESR, computes an efficiency estimate and nudges a  *)
(* PWM duty cycle toward a target efficiency.                              *)
(*                                                                         *)
(* Numbers.  The C code computes in binary32, and so does the model: a    *)
(* float is the integer sign * (bit pattern of its magnitude), which orders *)
(* as the floats do, and FAdd, FSub, FMul round to nearest, ties to even.   *)
(* Every operation is rounded on its own (no fused multiply-add), and       *)
(* powf(x, 2.0f) is taken to be the correctly rounded square.  Infinities   *)
(* and NaN do not arise from the values handled here.                       *)
(*                                                                         *)
(* Time.  HAL_GetTick() is a uint32_t.  TLC's integers are 32 bit signed,  *)
(* so a tick is kept as two 16 bit limbs <<hi, lo>> and the unsigned       *)
(* subtraction of the rate limiters is computed limb-wise, modulo 2^32.    *)
(***************************************************************************)
EXTENDS Integers, Sequences, FiniteSets, TLC

VARIABLES
    pc,                     \* position of main(): boot, control_loop, polling, adjust, delay, faulted
    hadc,                   \* the handle main() hands to control_loop
    tick,                   \* HAL_GetTick(), uint32 as <<hi, lo>>
    L_mH, C_uF, ESR_mOhm,   \* main.c:15
    duty_cycle,             \* main.c:16
    efficiency,             \* main.c:17
    adc_buffer,             \* main.c:18
    system_initialized,     \* main.c:20
    last_adjustment_time,   \* main.c:80 (static local)
    last_measurement_time,  \* main.c:139 (static local)
    meas,                   \* branch control_loop took at main.c:143-152 in this iteration
    ret,                    \* value returned by the last adjust_duty_cycle call
    iter,                   \* number of completed control_loop / idle iterations
    since_commit,           \* history: ticks since the last committed adjustment (saturating), -1 if none
    since_pass,             \* history: ticks since the last call that passed the rate limit (saturating), -1 if none
    hal_status,             \* worst HAL_StatusTypeDef the HAL_ADC_* calls of the last read_adc_safely returned
    hal_calls,              \* the HAL_ADC_* calls the last read_adc_safely made, in order
    last_adc_value,         \* value the last read_adc_safely returned (adc_value, main.c:44)
    config,                 \* the configuration in force (pwm_config_t, pwm_cli.h:26-32)
    cfg_request,            \* the pwm_config_t handed to the last cli_configure call
    cfg_ret                 \* value the last cli_configure call returned

vars == <<pc, hadc, tick, L_mH, C_uF, ESR_mOhm, duty_cycle, efficiency,
          adc_buffer, system_initialized, last_adjustment_time,
          last_measurement_time, meas, ret, iter, since_commit,
          since_pass, hal_status, hal_calls, last_adc_value,
          config, cfg_request, cfg_ret>>

\* what is known of the last read_adc_safely call
halVars == <<hal_status, hal_calls, last_adc_value>>

\* the state of the configuration surface
cliVars == <<config, cfg_request, cfg_ret>>

\* the state of the control program of main.c
coreVars == <<pc, hadc, tick, L_mH, C_uF, ESR_mOhm, duty_cycle, efficiency,
              adc_buffer, system_initialized, last_adjustment_time,
              last_measurement_time, meas, ret, iter, since_commit,
              since_pass, hal_status, hal_calls, last_adc_value>>

---------------------------------------------------------------------------
(* Bounds of the model *)

\* control_loop iterations (and idle rounds of error_handler) explored
MaxIter == 20

---------------------------------------------------------------------------
(* binary32 *)

P12 == 2^12

P23 == 2^23

P24 == 2^24

RECURSIVE BitLen(_)
\* number of bits of n >= 0
BitLen(n) == IF n = 0 THEN 0 ELSE 1 + BitLen(n \div 2)

\* biased exponent and 24 bit significand of a magnitude pattern b >= 0:
\* the value is FMan(b) * 2^(FExp(b) - 150)
FExp(b) == IF b \div P23 = 0 THEN 1 ELSE b \div P23

FMan(b) == IF b \div P23 = 0 THEN b % P23 ELSE P23 + (b % P23)

\* the pattern of significand m (m < 2^24; m >= 2^23 unless e = 1) and exponent e
FPack(m, e) == IF m < P23 THEN m ELSE e * P23 + (m - P23)

\* the binary32 nearest (ties to even) to (hi * 2^24 + lo) * 2^(e - 150)
FRound(hi, lo, e) ==
    IF hi = 0
    THEN LET len == BitLen(lo)
             s == IF 24 - len < e - 1 THEN 24 - len ELSE e - 1
         IN  IF lo = 0 THEN 0 ELSE FPack(lo * 2^s, e - s)
    ELSE LET k == BitLen(hi)
             kept == IF k <= 24
                     THEN hi * 2^(24 - k) + (lo \div 2^k)
                     ELSE hi \div 2^(k - 24)
             rem == IF k <= 24
                    THEN lo % 2^k
                    ELSE (hi % 2^(k - 24)) * P24 + lo
             half == 2^(k - 1)
             up == rem > half \/ (rem = half /\ kept % 2 = 1)
             m == IF up THEN kept + 1 ELSE kept
         IN  IF m = P24 THEN FPack(P23, e + k + 1) ELSE FPack(m, e + k)

\* |a| + |b| (same = TRUE) or |a| - |b| (same = FALSE) for patterns a >= b >= 0
FAddMag(a, b, same) ==
    LET d == FExp(a) - FExp(b)
        ma == FMan(a)
        mb == FMan(b)
        hi == IF d <= 24 THEN ma \div 2^(24 - d) ELSE ma * 2^(d - 24)
        lo == IF d <= 24 THEN (ma % 2^(24 - d)) * 2^d ELSE 0
        lo2 == IF same THEN lo + mb ELSE lo - mb
    IN  IF d >= 26 THEN a
        ELSE FRound(hi + (lo2 \div P24), lo2 % P24, FExp(b))

fabsf(a) == IF a < 0 THEN 0 - a ELSE a

FSign(a) == IF a < 0 THEN 0 - 1 ELSE 1

\* a + b
FAdd(a, b) ==
    LET big == IF fabsf(a) >= fabsf(b) THEN a ELSE b
        small == IF fabsf(a) >= fabsf(b) THEN b ELSE a
    IN  FSign(big) * FAddMag(fabsf(big), fabsf(small), FSign(a) = FSign(b))

\* a - b
FSub(a, b) == FAdd(a, 0 - b)

\* a * b
FMul(a, b) ==
    LET ma == FMan(fabsf(a))
        mb == FMan(fabsf(b))
        a1 == ma \div P12
        a0 == ma % P12
        b1 == mb \div P12
        b0 == mb % P12
        mid == a1 * b0 + a0 * b1
        losum == (mid % P12) * P12 + a0 * b0
        hi == a1 * b1 + (mid \div P12) + (losum \div P24)
        lo == losum % P24
    IN  IF a = 0 \/ b = 0 THEN 0
        ELSE FSign(a) * FSign(b)
               * FRound(hi, lo, FExp(fabsf(a)) + FExp(fabsf(b)) - 150)

\* (float)n for an integer 0 <= n < 2^24
ToFloat(n) == FRound(0, n, 150)

RECURSIVE DivBits(_, _, _, _)
\* long division: n more quotient bits of rem / d appended to q; <<q, remainder>>
DivBits(rem, d, n, q) ==
    IF n = 0 THEN <<q, rem>>
    ELSE IF rem >= d THEN DivBits(2 * (rem - d), d, n - 1, 2 * q + 1)
         ELSE DivBits(2 * rem, d, n - 1, 2 * q)

\* the float literal n/d (0 <= n < 2^24, 0 < d < 2^24): 0.05f is Dec(5, 100)
Dec(n, d) ==
    LET ln == BitLen(n)
        ld == BitLen(d)
        n1 == n * 2^(24 - ln)
        d1 == d * 2^(24 - ld)
        lt == n1 < d1
        r == DivBits(IF lt THEN 2 * n1 ELSE n1, d1, 24, 0)
        e == ln - ld + 127 - (IF lt THEN 1 ELSE 0)
        up == r[2] > d1 \/ (r[2] = d1 /\ r[1] % 2 = 1)
        m == IF up THEN r[1] + 1 ELSE r[1]
    IN  IF n = 0 THEN 0
        ELSE IF m = P24 THEN FPack(P23, e + 1) ELSE FPack(m, e)

fmaxf(a, b) == IF a > b THEN a ELSE b

fminf(a, b) == IF a < b THEN a ELSE b

\* powf(x, 2.0f)
powf2(x) == FMul(x, x)

\* the float literals of main.c
F_0_0001 == Dec(1, 10000)

F_0_001 == Dec(1, 1000)

F_0_01 == Dec(1, 100)

F_0_05 == Dec(5, 100)

F_0_1 == Dec(1, 10)

F_0_2 == Dec(2, 10)

F_0_5 == Dec(5, 10)

F_1_0 == Dec(1, 1)

F_100 == Dec(100, 1)

F_1000 == Dec(1000, 1)

---------------------------------------------------------------------------
(* uint32_t arithmetic on <<hi, lo>> *)

U16 == 2^16

\* the uint32 with value n, 0 <= n < 2^31
U32(n) == <<n \div U16, n % U16>>

\* t + n modulo 2^32, 0 <= n < 2^31 - 2^16
U32Add(t, n) ==
    LET lo == t[2] + (n % U16)
    IN  <<(t[1] + (n \div U16) + (lo \div U16)) % U16, lo % U16>>

\* variant: a difference that stops at 0 instead of wrapping
U32Sub_saturating(a, b) ==
    IF a[1] < b[1] \/ (a[1] = b[1] /\ a[2] < b[2])
    THEN <<0, 0>>
    ELSE LET lo == a[2] - b[2]
         IN  <<(a[1] - b[1] + (lo \div U16)) % U16, lo % U16>>

\* a - b modulo 2^32
U32Sub(a, b) ==
    LET lo == a[2] - b[2]
    IN  <<(a[1] - b[1] + (lo \div U16)) % U16, lo % U16>>

\* d < n and d > n for a small n
U32Lt(d, n) == d[1] = 0 /\ d[2] < n

U32Gt(d, n) == d[1] > 0 \/ d[2] > n

---------------------------------------------------------------------------
(* Program constants *)

MAX_DUTY_CYCLE == Dec(95, 100)

MIN_DUTY_CYCLE == Dec(5, 100)

TARGET_EFFICIENCY == Dec(95, 100)

ADC_BUFFER_SIZE == 16

\* rate limit of adjust_duty_cycle, in ticks
ADJUST_INTERVAL == 100

\* measurement cadence of control_loop, in ticks
MEASURE_INTERVAL == 50

NULL == "NULL"

HADC1 == "hadc1"

\* HAL_Delay(10) of main's loop and HAL_Delay(1000) of error_handler, in ticks
LOOP_DELAY == 10

FAULT_DELAY == 1000

---------------------------------------------------------------------------
(* Inputs: what the ADC and the tick counter can deliver *)

\* a buffer holds n readings a followed by readings b
Mix(a, b, n) == [i \in 1..ADC_BUFFER_SIZE |-> IF i <= n THEN a ELSE b]

\* the 16 values HAL_ADC_GetValue returns during one read_adc_safely call:
\* 12 bit conversion results (ADC_RESOLUTION_12B) with the means
\* 0, 100, 497 (the last valid one), 498 and 2048
Buffers ==
    {Mix(0, 0, 0), Mix(100, 100, 0), Mix(498, 497, 15), Mix(498, 498, 0),
     Mix(2048, 2048, 0)}

\* what the HAL_ADC_* calls of one read_adc_safely report: all HAL_OK, or
\* HAL_ERROR from one of them (HAL_StatusTypeDef); read_adc_safely goes on to
\* HAL_ADC_GetValue either way
HalStatuses == {"HAL_OK", "HAL_ERROR"}

\* HAL_MAX_DELAY, the Timeout read_adc_safely hands to
\* HAL_ADC_PollForConversion (main.c:29): 0xFFFFFFFF, which the HAL takes as
\* "no timeout"
HAL_MAX_DELAY == <<U16 - 1, U16 - 1>>

\* whether HAL_ADC_PollForConversion(hadc, timeout) ever returns: when the
\* conversion completes (or fails), or when a timeout other than
\* HAL_MAX_DELAY runs out
PollReturns(timeout, completes) == completes \/ timeout # HAL_MAX_DELAY

\* ticks that pass while read_adc_safely polls the converter
PollTicks == {0, 1}

\* ticks that pass in HAL_Delay(10): at least the requested delay
DelayTicks == {LOOP_DELAY, LOOP_DELAY + 1}

---------------------------------------------------------------------------
(* The functions of main.c *)

RECURSIVE SumTo(_, _)
RECURSIVE ConversionCycles(_)
\* sum += adc_buffer[i], i = 0 .. n-1, in uint32_t (16 * 65535 does not wrap)
SumTo(buf, n) == IF n = 0 THEN 0 ELSE SumTo(buf, n - 1) + buf[n]

\* the HAL calls of n rounds of the loop of read_adc_safely (main.c:27-33)
ConversionCycles(n) ==
    IF n = 0
    THEN <<>>
    ELSE ConversionCycles(n - 1) \o <<"HAL_ADC_Start", "HAL_ADC_PollForConversion",
                                       "HAL_ADC_GetValue", "HAL_ADC_Stop">>

\* adc_buffer[i] = HAL_ADC_GetValue(hadc): a uint32_t stored in a uint16_t
StoreBuffer(readings) == [i \in 1..ADC_BUFFER_SIZE |-> readings[i] % U16]

\* variant: the sum divided by one less than the number of readings
read_adc_safely_short(readings) ==
    (SumTo(StoreBuffer(readings), ADC_BUFFER_SIZE) \div (ADC_BUFFER_SIZE - 1)) % U16

\* uint16_t read_adc_safely(hadc): the mean of the 16 stored readings, truncated
read_adc_safely(readings) ==
    (SumTo(StoreBuffer(readings), ADC_BUFFER_SIZE) \div ADC_BUFFER_SIZE) % U16

\* the three conversions of measure_electrical_parameters
ConvL(adc_value) == FAdd(FMul(ToFloat(adc_value), F_0_1), F_0_1)

ConvC(adc_value) == FAdd(FMul(ToFloat(adc_value), F_0_05), F_1_0)

\* variant: the ESR conversion without its offset
ConvESR_no_offset(adc_value) == FMul(ToFloat(adc_value), F_0_2)

ConvESR(adc_value) == FAdd(FMul(ToFloat(adc_value), F_0_2), F_0_5)

\* the three range checks of measure_electrical_parameters
ValidL(l) == ~(l < F_0_01 \/ l > F_100)

ValidC(c) == ~(c < F_0_1 \/ c > F_1000)

\* variant: the ESR range check left out
ValidESR_unchecked(e) == TRUE

ValidESR(e) == ~(e < 0 \/ e > F_100)

\* variant: measure_electrical_parameters without the NULL check of main.c:41
measure_electrical_parameters_unguarded(h, readings, l0, c0, e0) ==
    LET adc_value == read_adc_safely(readings)
        l == ConvL(adc_value)
        c == ConvC(adc_value)
        e == ConvESR(adc_value)
    IN  [ok |-> ValidL(l) /\ ValidC(c) /\ ValidESR(e),
         L |-> l, C |-> c, ESR |-> e, sampled |-> TRUE]

\* bool measure_electrical_parameters(hadc): its return value, the values it
\* leaves in L_mH, C_uF, ESR_mOhm, and whether it sampled the converter
measure_electrical_parameters(h, readings, l0, c0, e0) ==
    IF h = NULL
    THEN [ok |-> FALSE, L |-> l0, C |-> c0, ESR |-> e0, sampled |-> FALSE]
    ELSE LET adc_value == read_adc_safely(readings)
             l == ConvL(adc_value)
             c == ConvC(adc_value)
             e == ConvESR(adc_value)
         IN  [ok |-> ValidL(l) /\ ValidC(c) /\ ValidESR(e),
              L |-> l, C |-> c, ESR |-> e, sampled |-> TRUE]

\* variant: the result of calculate_efficiency returned without the clamp
calculate_efficiency_unclamped(inductance, capacitance, esr, duty) ==
    LET switching_losses == FMul(FMul(F_0_01, inductance), powf2(duty))
        conduction_losses == FMul(esr, powf2(duty))
        total_losses == FAdd(switching_losses, conduction_losses)
    IN  IF total_losses < F_0_0001
        THEN F_1_0
        ELSE FSub(F_1_0, total_losses)

\* float calculate_efficiency(inductance, capacitance, esr); duty is the
\* global duty_cycle it reads
calculate_efficiency(inductance, capacitance, esr, duty) ==
    LET switching_losses == FMul(FMul(F_0_01, inductance), powf2(duty))
        conduction_losses == FMul(esr, powf2(duty))
        total_losses == FAdd(switching_losses, conduction_losses)
    IN  IF total_losses < F_0_0001
        THEN F_1_0
        ELSE fmaxf(0, fminf(F_1_0, FSub(F_1_0, total_losses)))

\* variant: the candidate without the clamp of main.c:95-96
new_duty_cycle_unclamped(target_efficiency, duty, eff) ==
    LET efficiency_error == FSub(target_efficiency, eff)
        adjustment_step == FMul(efficiency_error, F_0_05)
    IN  FAdd(duty, adjustment_step)

\* variant: the step applied with the wrong sign
new_duty_cycle_reversed(target_efficiency, duty, eff) ==
    LET efficiency_error == FSub(target_efficiency, eff)
        adjustment_step == FMul(efficiency_error, F_0_05)
    IN  fmaxf(MIN_DUTY_CYCLE, fminf(MAX_DUTY_CYCLE, FSub(duty, adjustment_step)))

\* variant: the step taken with twice the gain
new_duty_cycle_double_gain(target_efficiency, duty, eff) ==
    LET efficiency_error == FSub(target_efficiency, eff)
        adjustment_step == FMul(efficiency_error, F_0_1)
    IN  fmaxf(MIN_DUTY_CYCLE, fminf(MAX_DUTY_CYCLE, FAdd(duty, adjustment_step)))

\* the candidate of adjust_duty_cycle (main.c:91-96)
new_duty_cycle(target_efficiency, duty, eff) ==
    LET efficiency_error == FSub(target_efficiency, eff)
        adjustment_step == FMul(efficiency_error, F_0_05)
    IN  fmaxf(MIN_DUTY_CYCLE, fminf(MAX_DUTY_CYCLE, FAdd(duty, adjustment_step)))

\* variant: a rate limit of half the interval
RateLimited_half(current_time, last) ==
    U32Lt(U32Sub(current_time, last), ADJUST_INTERVAL \div 2)

\* the rate limit of adjust_duty_cycle (main.c:84)
RateLimited(current_time, last) == U32Lt(U32Sub(current_time, last), ADJUST_INTERVAL)

\* the deadband of adjust_duty_cycle (main.c:99)
Meaningful(new, duty) == fabsf(FSub(new, duty)) > F_0_001

\* variant: last_adjustment_time written only when the duty cycle changes
adjust_duty_cycle_stamp_on_commit(target_efficiency, current_time, last, duty, eff) ==
    IF RateLimited(current_time, last)
    THEN [ret |-> FALSE, duty |-> duty, last |-> last]
    ELSE LET new == new_duty_cycle(target_efficiency, duty, eff)
         IN  IF Meaningful(new, duty)
             THEN [ret |-> TRUE, duty |-> new, last |-> current_time]
             ELSE [ret |-> FALSE, duty |-> duty, last |-> last]

\* bool adjust_duty_cycle(target_efficiency): its return value and the values
\* it leaves in duty_cycle and last_adjustment_time
adjust_duty_cycle(target_efficiency, current_time, last, duty, eff) ==
    IF RateLimited(current_time, last)
    THEN [ret |-> FALSE, duty |-> duty, last |-> last]
    ELSE LET new == new_duty_cycle(target_efficiency, duty, eff)
         IN  IF Meaningful(new, duty)
             THEN [ret |-> TRUE, duty |-> new, last |-> current_time]
             ELSE [ret |-> FALSE, duty |-> duty, last |-> current_time]

\* variant: the fallback of main.c:150 left out
MeasurementBlock_no_fallback(h, readings, l0, c0, e0, duty) ==
    LET m == measure_electrical_parameters(h, readings, l0, c0, e0)
    IN  IF m.ok
        THEN [L |-> m.L, C |-> m.C, ESR |-> m.ESR, sampled |-> m.sampled,
              duty |-> duty,
              efficiency |-> calculate_efficiency(m.L, m.C, m.ESR, duty),
              meas |-> "ok"]
        ELSE [L |-> m.L, C |-> m.C, ESR |-> m.ESR, sampled |-> m.sampled,
              duty |-> duty,
              efficiency |-> 0,
              meas |-> "fail"]

\* control_loop, main.c:146-152: measure, then either the new efficiency or
\* the fallback; the values left in the globals and the branch taken
MeasurementBlock(h, readings, l0, c0, e0, duty) ==
    LET m == measure_electrical_parameters(h, readings, l0, c0, e0)
    IN  IF m.ok
        THEN [L |-> m.L, C |-> m.C, ESR |-> m.ESR, sampled |-> m.sampled,
              duty |-> duty,
              efficiency |-> calculate_efficiency(m.L, m.C, m.ESR, duty),
              meas |-> "ok"]
        ELSE [L |-> m.L, C |-> m.C, ESR |-> m.ESR, sampled |-> m.sampled,
              duty |-> F_0_5,
              efficiency |-> 0,
              meas |-> "fail"]

\* variant: error_handler without the assignment of main.c:167
error_handler_idle_only(duty) == duty

\* error_handler, main.c:167: the value it leaves in duty_cycle
error_handler(duty) == MIN_DUTY_CYCLE

\* the cadence test of control_loop (main.c:143)
MeasurementDue(current_time, last) == U32Gt(U32Sub(current_time, last), MEASURE_INTERVAL)

---------------------------------------------------------------------------
(* History *)

Saturate(n) == IF n > ADJUST_INTERVAL THEN ADJUST_INTERVAL ELSE n

\* a history counter after d more ticks
Elapse(s, d) == IF s < 0 THEN s ELSE Saturate(s + d)

---------------------------------------------------------------------------
(* The configuration surface (pwm_cli.h).  cli_configure is declared in     *)
(* pwm_cli.h:75; its body is not part of the sources, and is taken from the  *)
(* specification: the bounds of an update are validated against              *)
(* 0 < min < max < 1, and an update that fails is rejected with no change.   *)

\* the configuration the constants of main.c amount to
DefaultConfig ==
    [duty_cycle_min |-> MIN_DUTY_CYCLE, duty_cycle_max |-> MAX_DUTY_CYCLE,
     target_efficiency |-> TARGET_EFFICIENCY, sample_rate_ms |-> MEASURE_INTERVAL,
     secure_mode_enabled |-> FALSE]

\* duty cycle bounds a configuration update may ask for
ConfigBounds ==
    {0 - Dec(1, 10), 0, Dec(5, 100), Dec(10, 100), Dec(5, 10), Dec(95, 100),
     Dec(99, 100), Dec(1, 1), Dec(15, 10)}

\* the pwm_config_t values handed to cli_configure
ConfigRequests ==
    [duty_cycle_min : ConfigBounds, duty_cycle_max : ConfigBounds,
     target_efficiency : {Dec(9, 10), TARGET_EFFICIENCY},
     sample_rate_ms : {MEASURE_INTERVAL}, secure_mode_enabled : {FALSE}]

\* variant: the update applied without validating its bounds
cli_configure_unchecked(request, current) == [ok |-> TRUE, config |-> request]

\* bool cli_configure(const pwm_config_t* config): its return value and the
\* configuration in force after the call
cli_configure(request, current) ==
    IF /\ 0 < request.duty_cycle_min
       /\ request.duty_cycle_min < request.duty_cycle_max
       /\ request.duty_cycle_max < F_1_0
    THEN [ok |-> TRUE, config |-> request]
    ELSE [ok |-> FALSE, config |-> current]

---------------------------------------------------------------------------
(* main() *)

\* the state at the entry of main().  main() as written hands NULL to
\* control_loop (main.c:217, "Pass ADC handle in real implementation"); the
\* handle system_init sets up (main.c:194) is the other value of the parameter
Init ==
    /\ pc = "boot"
    /\ hadc \in {NULL, HADC1}
    /\ tick = U32(0)
    /\ L_mH = 0
    /\ C_uF = 0
    /\ ESR_mOhm = 0
    /\ duty_cycle = F_0_5
    /\ efficiency = 0
    /\ adc_buffer = [i \in 1..ADC_BUFFER_SIZE |-> 0]
    /\ system_initialized = FALSE
    /\ last_adjustment_time = U32(0)
    /\ last_measurement_time = U32(0)
    /\ meas = "none"
    /\ ret = FALSE
    /\ iter = 0
    /\ since_commit = -1
    /\ since_pass = -1
    /\ hal_status = "HAL_OK"
    /\ hal_calls = <<>>
    /\ last_adc_value = 0
    /\ config = DefaultConfig
    /\ cfg_request = DefaultConfig
    /\ cfg_ret = FALSE

\* variant: system_init returns true without setting the flag of main.c:202
SystemInitOk_no_flag ==
    /\ pc = "boot"
    /\ pc' = "control_loop"
    /\ UNCHANGED <<hadc, tick, L_mH, C_uF, ESR_mOhm, duty_cycle, efficiency,
                   adc_buffer, system_initialized, last_adjustment_time,
                   last_measurement_time, meas, ret, iter, since_commit,
                   since_pass>>
    /\ UNCHANGED halVars
    /\ UNCHANGED cliVars

\* system_init() returns true: HAL_Init and init_adc both succeed
SystemInitOk ==
    /\ pc = "boot"
    /\ system_initialized' = TRUE
    /\ pc' = "control_loop"
    /\ UNCHANGED <<hadc, tick, L_mH, C_uF, ESR_mOhm, duty_cycle, efficiency,
                   adc_buffer, last_adjustment_time, last_measurement_time,
                   meas, ret, iter, since_commit,
                   since_pass>>
    /\ UNCHANGED halVars
    /\ UNCHANGED cliVars

\* system_init() returns false (HAL_Init or HAL_ADC_Init fails) and main
\* enters error_handler, which never returns
SystemInitFail ==
    /\ pc = "boot"
    /\ \E hal_ok \in BOOLEAN, adc_ok \in BOOLEAN :
          /\ ~(hal_ok /\ adc_ok)
          /\ duty_cycle' = error_handler(duty_cycle)
          /\ pc' = "faulted"
    /\ UNCHANGED <<hadc, tick, L_mH, C_uF, ESR_mOhm, efficiency, adc_buffer,
                   system_initialized, last_adjustment_time,
                   last_measurement_time, meas, ret, iter, since_commit,
                   since_pass>>
    /\ UNCHANGED halVars
    /\ UNCHANGED cliVars

\* one round of error_handler's while(1) { HAL_Delay(1000); }
ErrorHandlerIdle ==
    /\ pc = "faulted"
    /\ iter < MaxIter
    /\ tick' = U32Add(tick, FAULT_DELAY)
    /\ iter' = iter + 1
    /\ since_commit' = Elapse(since_commit, FAULT_DELAY)
    /\ since_pass' = Elapse(since_pass, FAULT_DELAY)
    /\ UNCHANGED <<pc, hadc, L_mH, C_uF, ESR_mOhm, duty_cycle, efficiency,
                   adc_buffer, system_initialized, last_adjustment_time,
                   last_measurement_time, meas, ret>>
    /\ UNCHANGED halVars
    /\ UNCHANGED cliVars

\* control_loop, main.c:139-153: the periodic measurement, with the readings
\* the converter delivers drawn from bufs
Measure(bufs) ==
    /\ pc = "control_loop"
    /\ IF MeasurementDue(tick, last_measurement_time)
       THEN \E readings \in bufs :
            \E b \in {MeasurementBlock(hadc, readings, L_mH, C_uF, ESR_mOhm,
                                       duty_cycle)} :
            \E poll \in IF b.sampled THEN PollTicks ELSE {0} :
            \E status \in IF b.sampled THEN HalStatuses ELSE {hal_status} :
               /\ hal_status' = status
               /\ hal_calls' = IF b.sampled THEN ConversionCycles(ADC_BUFFER_SIZE)
                                            ELSE hal_calls
               /\ last_adc_value' = IF b.sampled THEN read_adc_safely(readings)
                                                 ELSE last_adc_value
               /\ last_measurement_time' = tick
               /\ L_mH' = b.L
               /\ C_uF' = b.C
               /\ ESR_mOhm' = b.ESR
               /\ adc_buffer' = IF b.sampled THEN StoreBuffer(readings)
                                             ELSE adc_buffer
               /\ tick' = U32Add(tick, poll)
               /\ since_commit' = Elapse(since_commit, poll)
               /\ since_pass' = Elapse(since_pass, poll)
               /\ efficiency' = b.efficiency
               /\ duty_cycle' = b.duty
               /\ meas' = b.meas
       ELSE /\ meas' = "none"
            /\ UNCHANGED <<last_measurement_time, L_mH, C_uF, ESR_mOhm,
                           adc_buffer, tick, since_commit, since_pass, efficiency,
                           duty_cycle>>
            /\ UNCHANGED halVars
    /\ pc' = "adjust"
    /\ UNCHANGED <<hadc, system_initialized, last_adjustment_time, ret, iter>>
    /\ UNCHANGED cliVars

ControlLoopMeasure == Measure(Buffers)

\* control_loop, main.c:143-146 and read_adc_safely, main.c:28-29: the
\* measurement is due and the converter never signals the end of the first
\* conversion
PollBlocks ==
    /\ pc = "control_loop"
    /\ MeasurementDue(tick, last_measurement_time)
    /\ hadc # NULL
    /\ ~PollReturns(HAL_MAX_DELAY, FALSE)
    /\ last_measurement_time' = tick
    /\ hal_calls' = <<"HAL_ADC_Start", "HAL_ADC_PollForConversion">>
    /\ pc' = "polling"
    /\ UNCHANGED <<hadc, tick, L_mH, C_uF, ESR_mOhm, duty_cycle, efficiency,
                   adc_buffer, system_initialized, last_adjustment_time, meas,
                   ret, iter, since_commit, since_pass, hal_status,
                   last_adc_value>>
    /\ UNCHANGED cliVars

\* HAL_ADC_PollForConversion keeps waiting while another tick passes
PollWait ==
    /\ pc = "polling"
    /\ iter < MaxIter
    /\ tick' = U32Add(tick, 1)
    /\ since_commit' = Elapse(since_commit, 1)
    /\ since_pass' = Elapse(since_pass, 1)
    /\ iter' = iter + 1
    /\ UNCHANGED <<pc, hadc, L_mH, C_uF, ESR_mOhm, duty_cycle, efficiency,
                   adc_buffer, system_initialized, last_adjustment_time,
                   last_measurement_time, meas, ret>>
    /\ UNCHANGED halVars
    /\ UNCHANGED cliVars

\* control_loop, main.c:156: adjust_duty_cycle(TARGET_EFFICIENCY)
ControlLoopAdjust ==
    /\ pc = "adjust"
    /\ \E a \in {adjust_duty_cycle(TARGET_EFFICIENCY, tick, last_adjustment_time,
                                    duty_cycle, efficiency)} :
           /\ duty_cycle' = a.duty
           /\ last_adjustment_time' = a.last
           /\ ret' = a.ret
           /\ since_commit' = IF a.ret THEN 0 ELSE since_commit
           /\ since_pass' = IF a.ret \/ a.last # last_adjustment_time
                            THEN 0 ELSE since_pass
    /\ pc' = "delay"
    /\ UNCHANGED <<hadc, tick, L_mH, C_uF, ESR_mOhm, efficiency, adc_buffer,
                   system_initialized, last_measurement_time, meas, iter>>
    /\ UNCHANGED halVars
    /\ UNCHANGED cliVars

\* variant: a failed measurement ends the loop in the fault state
LoopDelay_fatal ==
    /\ pc = "delay"
    /\ iter < MaxIter
    /\ \E d \in DelayTicks :
          /\ tick' = U32Add(tick, d)
          /\ since_commit' = Elapse(since_commit, d)
          /\ since_pass' = Elapse(since_pass, d)
    /\ iter' = iter + 1
    /\ pc' = IF meas = "fail" THEN "faulted" ELSE "control_loop"
    /\ UNCHANGED <<hadc, L_mH, C_uF, ESR_mOhm, duty_cycle, efficiency,
                   adc_buffer, system_initialized, last_adjustment_time,
                   last_measurement_time, meas, ret>>
    /\ UNCHANGED halVars
    /\ UNCHANGED cliVars

\* main.c:220: HAL_Delay(10), then the next iteration
LoopDelay ==
    /\ pc = "delay"
    /\ iter < MaxIter
    /\ \E d \in DelayTicks :
          /\ tick' = U32Add(tick, d)
          /\ since_commit' = Elapse(since_commit, d)
          /\ since_pass' = Elapse(since_pass, d)
    /\ iter' = iter + 1
    /\ pc' = "control_loop"
    /\ UNCHANGED <<hadc, L_mH, C_uF, ESR_mOhm, duty_cycle, efficiency,
                   adc_buffer, system_initialized, last_adjustment_time,
                   last_measurement_time, meas, ret>>
    /\ UNCHANGED halVars
    /\ UNCHANGED cliVars

Next ==
    \/ SystemInitOk
    \/ SystemInitFail
    \/ ErrorHandlerIdle
    \/ ControlLoopMeasure
    \/ PollBlocks
    \/ PollWait
    \/ ControlLoopAdjust
    \/ LoopDelay

Spec == Init /\ [][Next]_vars

---------------------------------------------------------------------------
(* Function-level specification: the functions of main.c applied to inputs  *)
(* drawn from bounded sets, one control_loop body per initial state.        *)

\* every 12 bit reading, as a buffer of 16 equal readings, and mixed buffers
AllBuffers ==
    {Mix(r, r, 0) : r \in 0..4095} \cup {Mix(498, 497, 15), Mix(4095, 0, 1)}

\* 2^32 - n as a uint32, 0 < n <= 2^16
U32Neg(n) == <<U16 - 1, U16 - n>>

\* duty cycles inside [MIN_DUTY_CYCLE, MAX_DUTY_CYCLE]
UnitDuties ==
    {Dec(5, 100), Dec(505, 10000), Dec(6, 100), Dec(1, 10), Dec(5, 10),
     Dec(5475, 10000), Dec(9275, 10000), Dec(9495, 10000), Dec(95, 100)}

\* efficiencies inside [0, 1]
UnitEffs ==
    {0, Dec(5, 10), Dec(875, 1000), Dec(929, 1000), Dec(93, 100),
     Dec(94, 100), Dec(95, 100), Dec(96, 100), Dec(97, 100), Dec(971, 1000),
     Dec(1, 1)}

\* <<HAL_GetTick(), last_adjustment_time>>: elapsed 0, 99, 100, 250, and 99
\* and 100 across the wrap of the tick counter
UnitAdjustClocks ==
    {<<U32(0), U32(0)>>, <<U32(99), U32(0)>>, <<U32(100), U32(0)>>,
     <<U32(350), U32(100)>>, <<U32(49), U32Neg(50)>>, <<U32(50), U32Neg(50)>>}

\* <<HAL_GetTick(), last_measurement_time>>: elapsed 50, 51, and 49, 50 and
\* 51 across the wrap of the tick counter
UnitMeasureClocks ==
    {<<U32(50), U32(0)>>, <<U32(51), U32(0)>>, <<U32(39), U32Neg(10)>>,
     <<U32(40), U32Neg(10)>>, <<U32(41), U32Neg(10)>>}

\* <<inductance, capacitance, esr>> handed to calculate_efficiency
UnitParams ==
    {<<l, Dec(1, 1), e>> :
        l \in {0, Dec(1, 10), Dec(101, 10), Dec(100, 1), Dec(4096, 10)},
        e \in {0, Dec(5, 10), Dec(205, 10), Dec(100, 1), Dec(8195, 10),
               Dec(100000, 1)}}

\* a call of adjust_duty_cycle
UnitInitAdjust ==
    /\ pc = "adjust"
    /\ hadc = HADC1
    /\ \E c \in UnitAdjustClocks : tick = c[1] /\ last_adjustment_time = c[2]
    /\ last_measurement_time = U32(0)
    /\ duty_cycle \in UnitDuties
    /\ efficiency \in UnitEffs
    /\ L_mH = 0 /\ C_uF = 0 /\ ESR_mOhm = 0

\* a call of control_loop with a working converter
UnitInitMeasure ==
    /\ pc = "control_loop"
    /\ hadc = HADC1
    /\ \E c \in UnitMeasureClocks : tick = c[1] /\ last_measurement_time = c[2]
    /\ last_adjustment_time = U32(0)
    /\ duty_cycle \in {Dec(5, 100), Dec(5, 10)}
    /\ efficiency = Dec(5, 10)
    /\ L_mH = ConvL(100) /\ C_uF = ConvC(100) /\ ESR_mOhm = ConvESR(100)

\* a call of calculate_efficiency
UnitInitEfficiency ==
    /\ pc = "efficiency"
    /\ hadc = HADC1
    /\ tick = U32(0)
    /\ last_measurement_time = U32(0)
    /\ last_adjustment_time = U32(0)
    /\ duty_cycle \in UnitDuties
    /\ efficiency = 0
    /\ \E q \in UnitParams : L_mH = q[1] /\ C_uF = q[2] /\ ESR_mOhm = q[3]

\* a call of error_handler
UnitInitError ==
    /\ pc = "error_handler"
    /\ hadc = HADC1
    /\ tick = U32(0)
    /\ last_measurement_time = U32(0)
    /\ last_adjustment_time = U32(0)
    /\ duty_cycle \in UnitDuties
    /\ efficiency = 0
    /\ L_mH = 0 /\ C_uF = 0 /\ ESR_mOhm = 0

UnitInit ==
    /\ adc_buffer = [i \in 1..ADC_BUFFER_SIZE |-> 0]
    /\ system_initialized = TRUE
    /\ meas = "none"
    /\ ret = FALSE
    /\ iter = 0
    /\ since_commit = -1
    /\ since_pass = -1
    /\ hal_status = "HAL_OK"
    /\ hal_calls = <<>>
    /\ last_adc_value = 0
    /\ config = DefaultConfig
    /\ cfg_request = DefaultConfig
    /\ cfg_ret = FALSE
    /\ (UnitInitAdjust \/ UnitInitMeasure \/ UnitInitEfficiency \/ UnitInitError)

\* main.c:139-153 with every reading the converter can deliver
UnitMeasure == Measure(AllBuffers)

\* main.c:147 alone: efficiency = calculate_efficiency(L_mH, C_uF, ESR_mOhm)
UnitEfficiency ==
    /\ pc = "efficiency"
    /\ \E e \in {calculate_efficiency(L_mH, C_uF, ESR_mOhm, duty_cycle)} :
           efficiency' = e
    /\ pc' = "adjust"
    /\ UNCHANGED <<hadc, tick, L_mH, C_uF, ESR_mOhm, duty_cycle, adc_buffer,
                   system_initialized, last_adjustment_time,
                   last_measurement_time, meas, ret, iter, since_commit,
                   since_pass>>
    /\ UNCHANGED halVars
    /\ UNCHANGED cliVars

\* main.c:167 alone: error_handler sets the duty cycle, then idles
UnitErrorHandler ==
    /\ pc = "error_handler"
    /\ duty_cycle' = error_handler(duty_cycle)
    /\ pc' = "faulted"
    /\ UNCHANGED <<hadc, tick, L_mH, C_uF, ESR_mOhm, efficiency, adc_buffer,
                   system_initialized, last_adjustment_time,
                   last_measurement_time, meas, ret, iter, since_commit,
                   since_pass>>
    /\ UNCHANGED halVars
    /\ UNCHANGED cliVars

NextUnit ==
    \/ UnitMeasure
    \/ UnitEfficiency
    \/ UnitErrorHandler
    \/ ControlLoopAdjust

SpecUnit == UnitInit /\ [][NextUnit]_vars

---------------------------------------------------------------------------
(* Configuration updates, one cli_configure call per step *)

CliConfigure ==
    /\ \E request \in ConfigRequests :
       \E r \in {cli_configure(request, config)} :
          /\ cfg_request' = request
          /\ cfg_ret' = r.ok
          /\ config' = r.config
    /\ UNCHANGED coreVars

NextCli == CliConfigure

SpecCli == Init /\ [][NextCli]_vars

---------------------------------------------------------------------------
(* Properties *)

\* the mean of the readings stored by the last read_adc_safely call
LastRaw == read_adc_safely(adc_buffer)

\* C1: in every state the duty cycle lies in [MIN_DUTY_CYCLE, MAX_DUTY_CYCLE],
\* whatever control_loop, adjust_duty_cycle, the fallback and error_handler did
DutyCycleInRange ==
    /\ MIN_DUTY_CYCLE <= duty_cycle
    /\ duty_cycle <= MAX_DUTY_CYCLE

\* an adjustment whose unclamped candidate lies above MAX_DUTY_CYCLE was
\* committed at the clamp
DutyCycleClamped ==
    /\ pc = "delay"
    /\ ret
    /\ efficiency = 0
    /\ duty_cycle = MAX_DUTY_CYCLE

\* C2: a failed system_init leads straight to the faulted state with the duty
\* cycle at MIN_DUTY_CYCLE, and from the faulted state every step stays
\* there, runs no part of control_loop and keeps the duty cycle at
\* MIN_DUTY_CYCLE
FaultedIsTerminal ==
    [][ /\ (pc = "boot" /\ ~system_initialized')
            => (pc' = "faulted" /\ duty_cycle' = MIN_DUTY_CYCLE)
        /\ pc = "faulted"
            => /\ pc' = "faulted"
               /\ duty_cycle = MIN_DUTY_CYCLE
               /\ duty_cycle' = MIN_DUTY_CYCLE
               /\ UNCHANGED <<L_mH, C_uF, ESR_mOhm, efficiency, adc_buffer,
                              last_measurement_time, last_adjustment_time,
                              meas, ret>> ]_vars

\* error_handler has been idling for a while after a failed system_init
FaultedForAWhile ==
    /\ pc = "faulted"
    /\ ~system_initialized
    /\ iter > 1
    /\ duty_cycle = MIN_DUTY_CYCLE

\* C3: when the measurement of an iteration failed, the duty cycle is 0.5 and
\* the efficiency 0.0 at the moment adjust_duty_cycle is called
FallbackOnFailure ==
    (pc = "adjust" /\ meas = "fail")
        => (duty_cycle = F_0_5 /\ efficiency = 0)

\* readings of 2048 failed the estimation after an adjustment had been
\* committed, and the fallback is in place
FallbackAfterCommit ==
    /\ pc = "adjust"
    /\ meas = "fail"
    /\ hadc = HADC1
    /\ LastRaw = 2048
    /\ since_commit >= 0
    /\ duty_cycle = F_0_5

\* C4: a failing measure_electrical_parameters leaves L_mH, C_uF and ESR_mOhm
\* as they were before the call
RetainedOnFailure ==
    [][ (pc = "control_loop" /\ meas' = "fail")
            => UNCHANGED <<L_mH, C_uF, ESR_mOhm>> ]_vars

\* C5: in every state the efficiency lies in [0.0, 1.0]
EfficiencyInRange ==
    /\ 0 <= efficiency
    /\ efficiency <= F_1_0

\* an ESR far beyond the plausible range
VeryHighESR == Dec(100000, 1)

\* calculate_efficiency returned for a very high ESR, and the result is 0.0
EfficiencyClampedAtZero ==
    /\ pc = "adjust"
    /\ ESR_mOhm = VeryHighESR
    /\ efficiency = 0

\* C6: a call of adjust_duty_cycle made less than 100 ticks after the last
\* call that passed the rate limit leaves the duty cycle alone and returns
\* false, and a committed adjustment comes at least 100 ticks after the
\* committed adjustment before it
RateLimitHolds ==
    [][ pc = "adjust"
        => /\ (0 <= since_pass /\ since_pass < ADJUST_INTERVAL)
                => (duty_cycle' = duty_cycle /\ ~ret')
           /\ ret' => (since_commit = -1 \/ since_commit >= ADJUST_INTERVAL)
      ]_vars

\* a call that would have committed a new duty cycle was turned down inside
\* the window opened by the committed adjustment before it
TurnedDownInsideWindow ==
    /\ pc = "delay"
    /\ ~ret
    /\ 0 < since_pass /\ since_pass < ADJUST_INTERVAL
    /\ since_commit = since_pass
    /\ Meaningful(new_duty_cycle(TARGET_EFFICIENCY, duty_cycle, efficiency),
                  duty_cycle)

F_0_5475 == Dec(5475, 10000)

\* C8: a call of adjust_duty_cycle that is not rate limited computes the
\* candidate clamp(duty_cycle + (0.95 - efficiency) * 0.05, 0.05, 0.95) and
\* commits it exactly when it differs from the duty cycle by more than 0.001;
\* efficiency 0.0 and duty cycle 0.5 give 0.5475
CandidateCommitted ==
    [][ (pc = "adjust"
         /\ ~U32Lt(U32Sub(tick, last_adjustment_time), ADJUST_INTERVAL))
        => LET sum == FAdd(duty_cycle,
                           FMul(FSub(TARGET_EFFICIENCY, efficiency), F_0_05))
               candidate == IF sum > MAX_DUTY_CYCLE THEN MAX_DUTY_CYCLE
                            ELSE IF sum < MIN_DUTY_CYCLE THEN MIN_DUTY_CYCLE
                            ELSE sum
               far == fabsf(FSub(candidate, duty_cycle)) > F_0_001
           IN  /\ duty_cycle' = IF far THEN candidate ELSE duty_cycle
               /\ ret' = far
               /\ (duty_cycle = F_0_5 /\ efficiency = 0)
                      => duty_cycle' = F_0_5475
      ]_vars

\* the call with efficiency 0.0 and duty cycle 0.5 has committed 0.5475
ExampleCommitted ==
    /\ pc = "delay"
    /\ ret
    /\ since_pass = 0
    /\ efficiency = 0
    /\ duty_cycle = F_0_5475

\* C9: with a converter handle, the estimation of a mean reading raw succeeds
\* exactly when raw*0.1+0.1 is in [0.01, 100], raw*0.05+1.0 in [0.1, 1000] and
\* raw*0.2+0.5 in [0, 100] (the ranges are stated here in hundredths)
EstimatorAllOrNothing ==
    (pc = "adjust" /\ hadc = HADC1 /\ meas \in {"ok", "fail"})
        => LET raw == LastRaw
               l == 10 * raw + 10
               c == 5 * raw + 100
               e == 20 * raw + 50
           IN  meas = "ok" <=> /\ 1 <= l /\ l <= 10000
                               /\ 10 <= c /\ c <= 100000
                               /\ 0 <= e /\ e <= 10000

\* a mean reading of 600 gives a valid inductance and capacitance and an ESR
\* out of range, and the estimation failed
OneOutOfRangeFails ==
    /\ pc = "adjust"
    /\ hadc = HADC1
    /\ LastRaw = 600
    /\ ValidL(L_mH)
    /\ ValidC(C_uF)
    /\ ESR_mOhm > F_100
    /\ meas = "fail"

\* C10: an iteration of control_loop that finds 50 ticks or more elapsed
\* since last_measurement_time sets last_measurement_time to the current tick
\* and measures; an iteration that finds less than 50 elapsed does neither
MeasuredEvery50 ==
    [][ pc = "control_loop"
        => IF ~U32Lt(U32Sub(tick, last_measurement_time), MEASURE_INTERVAL)
           THEN last_measurement_time' = tick
                /\ (meas' \in {"ok", "fail"} \/ pc' = "polling")
           ELSE last_measurement_time' = last_measurement_time
                /\ meas' = "none"
      ]_vars

\* C11: when a HAL_ADC_* call of the acquisition reported an error, the
\* cycle is handled as a measurement failure: the estimation does not
\* succeed on the readings, and the duty cycle is 0.5 and the efficiency 0.0
\* when adjust_duty_cycle is called
DriverErrorSurfaced ==
    (pc = "adjust" /\ meas \in {"ok", "fail"} /\ hadc # NULL
     /\ hal_status = "HAL_ERROR")
        => (meas = "fail" /\ duty_cycle = F_0_5 /\ efficiency = 0)

\* C12: when adjust_duty_cycle commits a new duty cycle while the stored
\* parameters are valid, the efficiency calculate_efficiency gives for them
\* at the new duty cycle is no farther from the target than the efficiency
\* at the old duty cycle
CommitClosesGap ==
    [][ (pc = "adjust" /\ ret' /\ duty_cycle' # duty_cycle
         /\ ValidL(L_mH) /\ ValidC(C_uF) /\ ValidESR(ESR_mOhm))
        => LET before == calculate_efficiency(L_mH, C_uF, ESR_mOhm, duty_cycle)
               after == calculate_efficiency(L_mH, C_uF, ESR_mOhm, duty_cycle')
           IN  fabsf(FSub(TARGET_EFFICIENCY, after))
                   <= fabsf(FSub(TARGET_EFFICIENCY, before))
      ]_vars

\* C13: once the control loop runs, no step leads to the fault state, and
\* after a failed measurement the iteration goes on to adjust_duty_cycle, to
\* HAL_Delay and to the next iteration
FailuresAreNotFatal ==
    [][ (pc \in {"control_loop", "polling", "adjust", "delay"})
        => /\ pc' # "faulted"
           /\ (pc = "control_loop" /\ meas' = "fail") => pc' = "adjust"
           /\ (pc = "adjust" /\ meas = "fail") => pc' = "delay"
           /\ (pc = "delay" /\ meas = "fail") => pc' = "control_loop"
      ]_vars

\* the loop has come round again after a failed measurement, more than ten
\* iterations after boot
LoopedAfterFailures ==
    /\ pc = "control_loop"
    /\ meas = "fail"
    /\ iter > 10
    /\ system_initialized

\* C14: a configuration update whose bounds do not satisfy
\* 0 < duty_cycle_min < duty_cycle_max < 1 is rejected: cli_configure returns
\* false for it, and the configuration in force and the state of the control
\* program are what they were before the call
InvalidBoundsRejected ==
    [][ ~(/\ 0 < cfg_request'.duty_cycle_min
          /\ cfg_request'.duty_cycle_min < cfg_request'.duty_cycle_max
          /\ cfg_request'.duty_cycle_max < F_1_0)
        => (cfg_ret' = FALSE /\ config' = config /\ UNCHANGED coreVars)
      ]_vars

\* the update min = 0.99, max = 0.10 was rejected after another update had
\* been accepted, and the accepted configuration is still in force
InvertedBoundsRejected ==
    /\ cfg_request.duty_cycle_min = Dec(99, 100)
    /\ cfg_request.duty_cycle_max = Dec(10, 100)
    /\ cfg_ret = FALSE
    /\ config # DefaultConfig
    /\ config.duty_cycle_min < config.duty_cycle_max

\* C15: system_initialized is false at the start and becomes true only in
\* the step that completes a first full control cycle: the adjust_duty_cycle
\* call of an iteration whose measurement succeeded
InitializedAfterFirstCycle ==
    [][ (~system_initialized /\ system_initialized')
            => (pc = "adjust" /\ meas = "ok") ]_vars

\* C15 as amended: system_initialized is false at the start and becomes true
\* only when system_init succeeds, before the first control_loop iteration;
\* it is true throughout the control loop, stays true, and is false in the
\* fault state a failed system_init leads to
InitializedBySystemInit ==
    [][ /\ (~system_initialized /\ system_initialized')
            => (pc = "boot" /\ pc' = "control_loop" /\ iter = 0)
        /\ pc = "boot" => ~system_initialized
        /\ system_initialized => system_initialized'
        /\ pc' \in {"control_loop", "polling", "adjust", "delay"}
            => system_initialized'
        /\ pc' = "faulted" => ~system_initialized'
      ]_vars

\* system_init has succeeded and no control_loop iteration has run yet
InitializedBeforeFirstCycle ==
    /\ system_initialized
    /\ pc = "control_loop"
    /\ iter = 0
    /\ meas = "none"

\* C16: read_adc_safely makes exactly 16 conversion cycles, each of them
\* start, wait for completion, read, stop, and returns the sum of the 16
\* stored readings divided by 16 and rounded down, which lies between the
\* smallest and the largest reading
SixteenCyclesAndMean ==
    (pc = "adjust" /\ meas \in {"ok", "fail"} /\ hadc # NULL)
        => /\ Len(hal_calls) = 4 * 16
           /\ \A k \in 0..15 :
                 /\ hal_calls[4 * k + 1] = "HAL_ADC_Start"
                 /\ hal_calls[4 * k + 2] = "HAL_ADC_PollForConversion"
                 /\ hal_calls[4 * k + 3] = "HAL_ADC_GetValue"
                 /\ hal_calls[4 * k + 4] = "HAL_ADC_Stop"
           /\ DOMAIN adc_buffer = 1..16
           /\ LET sum == adc_buffer[1] + adc_buffer[2] + adc_buffer[3]
                         + adc_buffer[4] + adc_buffer[5] + adc_buffer[6]
                         + adc_buffer[7] + adc_buffer[8] + adc_buffer[9]
                         + adc_buffer[10] + adc_buffer[11] + adc_buffer[12]
                         + adc_buffer[13] + adc_buffer[14] + adc_buffer[15]
                         + adc_buffer[16]
              IN  /\ sum < 65536 * 16
                  /\ 16 * last_adc_value <= sum
                  /\ sum < 16 * last_adc_value + 16
                  /\ \E i \in 1..16 : adc_buffer[i] <= last_adc_value
                  /\ \E i \in 1..16 : last_adc_value <= adc_buffer[i]

\* one reading of 4095 and fifteen of 0 were averaged to 255
UnevenReadingsAveraged ==
    /\ pc = "adjust"
    /\ hadc # NULL
    /\ meas = "ok"
    /\ adc_buffer[1] = 4095
    /\ adc_buffer[16] = 0
    /\ last_adc_value = 255

\* C17: every iteration of control_loop runs to completion, also when the
\* converter never signals the end of a conversion: control_loop is never
\* inside a wait for the converter that no timeout ends
IterationNeverHangs ==
    ~(pc = "polling" /\ ~PollReturns(HAL_MAX_DELAY, FALSE))

\* C18: last_measurement_time changes only in an iteration that measures,
\* to the current tick; last_adjustment_time changes only in an
\* adjust_duty_cycle call that passes the rate limit, which sets it to the
\* current tick whether or not the duty cycle is then changed; a rate
\* limited call leaves it alone
TimestampsFollowTheirAction ==
    [][ /\ last_measurement_time' # last_measurement_time
            => /\ pc = "control_loop"
               /\ meas' \in {"ok", "fail"} \/ pc' = "polling"
               /\ last_measurement_time' = tick
        /\ (pc = "control_loop" /\ pc' = "adjust" /\ meas' = "none")
            => last_measurement_time' = last_measurement_time
        /\ last_adjustment_time' # last_adjustment_time => pc = "adjust"
        /\ pc = "adjust"
            => last_adjustment_time' =
                  IF U32Lt(U32Sub(tick, last_adjustment_time), ADJUST_INTERVAL)
                  THEN last_adjustment_time
                  ELSE tick
      ]_vars

\* a call passed the rate limit, the deadband kept the duty cycle, and
\* last_adjustment_time is the tick of the call
StampedWithoutCommit ==
    /\ pc = "delay"
    /\ ~ret
    /\ since_pass = 0
    /\ since_commit = -1
    /\ last_adjustment_time = tick
    /\ tick # U32(0)

\* the efficiency of C19: 0.875
F_0_875 == Dec(875, 1000)

\* C19: while the control loop runs the duty cycle is never below 0.5 and
\* the stored efficiency never above 0.875; every committed adjustment
\* raises the duty cycle, and the duty cycle falls only in the fallback,
\* which resets it to 0.5
DutyNeverBelowHalf ==
    [][ pc' \in {"control_loop", "polling", "adjust", "delay"}
        => /\ duty_cycle' >= F_0_5
           /\ efficiency' <= F_0_875
           /\ (pc = "adjust" /\ ret') => duty_cycle' > duty_cycle
           /\ duty_cycle' < duty_cycle
                => (pc = "control_loop" /\ meas' = "fail"
                    /\ duty_cycle' = F_0_5)
      ]_vars

\* an adjustment committed after a successful measurement has raised the
\* duty cycle above 0.5
RaisedAfterMeasurement ==
    /\ pc = "delay"
    /\ ret
    /\ since_commit = 0
    /\ efficiency > 0
    /\ duty_cycle > F_0_5

\* C20: with the NULL handle main hands to control_loop, every measurement
\* fails before sampling: the efficiency and L_mH, C_uF, ESR_mOhm are 0.0 in
\* every state, no measurement succeeds and the converter is never sampled
NullHandleNeverMeasures ==
    hadc = NULL
        => /\ efficiency = 0
           /\ L_mH = 0 /\ C_uF = 0 /\ ESR_mOhm = 0
           /\ meas # "ok"
           /\ hal_calls = <<>>
           /\ pc # "polling"

\* with the NULL handle a measurement has failed and the controller has
\* committed an adjustment from efficiency 0.0
NullHandleLoopRuns ==
    /\ hadc = NULL
    /\ pc = "delay"
    /\ meas = "fail"
    /\ since_commit >= 0
    /\ system_initialized

\* the step bounds of C21, 0.05 * 0.95 and 0.05 * 0.05; both binary32 numbers
\* lie below the decimal, so a binary32 change is at most the decimal exactly
\* when it is at most the binary32 number
F_0_0475 == Dec(475, 10000)

F_0_0025 == Dec(25, 10000)

\* the same bounds widened by 0.0000001; the first binary32 number lies below
\* its decimal and the second above
F_0_0475001 == Dec(475001, 10000000)

F_0_0025001 == Dec(25001, 10000000)

\* C21 as stated: one call of adjust_duty_cycle changes the duty cycle by at
\* most 0.0475 upward and at most 0.0025 downward
StepWithinDecimalBounds ==
    [][ pc = "adjust"
        => /\ FSub(duty_cycle', duty_cycle) <= F_0_0475
           /\ FSub(duty_cycle, duty_cycle') <= F_0_0025
      ]_vars

\* C21: one call of adjust_duty_cycle changes the duty cycle by at most 0.0475
\* upward and at most 0.0025 downward up to the rounding of binary32: the
\* change never exceeds 0.0475001 upward nor 0.0025001 downward, for every
\* efficiency in [0, 1] and every duty cycle in [0.05, 0.95]
StepWithinRoundedBounds ==
    [][ pc = "adjust"
        => /\ FSub(duty_cycle', duty_cycle) <= F_0_0475001
           /\ FSub(duty_cycle, duty_cycle') < F_0_0025001
      ]_vars

\* the call with efficiency 0.0 and duty cycle 0.5 has committed 0.5475, a
\* step upward of 0.0475000143: above 0.0475 and below 0.0475001
LargestStepCommitted ==
    /\ pc = "delay"
    /\ ret
    /\ since_commit = 0
    /\ efficiency = 0
    /\ duty_cycle = F_0_5475
    /\ FSub(duty_cycle, F_0_5) > F_0_0475
    /\ FSub(duty_cycle, F_0_5) <= F_0_0475001

\* now is one of the n ticks last, last + 1, ..., last + n - 1, counted
\* modulo 2^32: fewer than n ticks have passed since last
Within(now, last, n) == \E k \in 0..(n - 1) : U32Add(last, k) = now

\* C22: the elapsed time of both rate limiters is the tick difference modulo
\* 2^32, so the spacing is kept when the tick counter wraps to 0: a call of
\* adjust_duty_cycle fewer than 100 ticks after last_adjustment_time is
\* turned down and any other call passes; control_loop does not measure
\* fewer than 50 ticks after last_measurement_time and measures once more
\* than 50 ticks have passed, on either side of the wrap
WrapKeepsSpacing ==
    [][ /\ pc = "adjust"
            => IF Within(tick, last_adjustment_time, ADJUST_INTERVAL)
               THEN /\ ~ret'
                    /\ duty_cycle' = duty_cycle
                    /\ last_adjustment_time' = last_adjustment_time
               ELSE last_adjustment_time' = tick
        /\ (pc = "control_loop"
            /\ Within(tick, last_measurement_time, MEASURE_INTERVAL))
            => /\ meas' = "none"
               /\ last_measurement_time' = last_measurement_time
        /\ (pc = "control_loop"
            /\ ~Within(tick, last_measurement_time, MEASURE_INTERVAL + 1))
            => /\ meas' \in {"ok", "fail"} \/ pc' = "polling"
               /\ last_measurement_time' = tick
      ]_vars

\* a call of adjust_duty_cycle at tick 50, 100 ticks after the adjustment at
\* tick 2^32 - 50, has passed the rate limit and committed a duty cycle
AdjustedAcrossWrap ==
    /\ pc = "delay"
    /\ ret
    /\ since_commit = 0
    /\ tick = U32(50)
    /\ last_adjustment_time = tick
    /\ last_measurement_time = U32(0)

=============================================================================
